---- MODULE Spec2Model ----
(***************************************************************************)
(* Model of the saini-game-hub account backend (Express + Mongoose).       *)
(*                                                                         *)
(* The repository holds two variants of the same server.  The full one     *)
(* (src/unnamed/part_000) has the routes /register, /login, /check,        *)
(* /upload-profile and /logout; src/app.js has /register, /login and       *)
(* /check with the same handler bodies.  The model follows part_000.       *)
(*                                                                         *)
(* Granularity: Node runs a handler without interruption from one `await`  *)
(* to the next.  An action is therefore one store (or disk) operation      *)
(* together with the synchronous handler code that runs on its result, up  *)
(* to the next `await` or to the response.  The arrival of a request is    *)
(* one action with the synchronous code before the first `await`.          *)
(*                                                                         *)
(* Environment: clients, each with a cookie jar that obeys Set-Cookie and  *)
(* with one request outstanding at a time; a client may also send a        *)
(* hand-made Cookie header (the cookie is unsigned).  Date.now() is the    *)
(* variable `now`, advanced by Tick.  Any store operation may fail.        *)
(***************************************************************************)
EXTENDS Integers, Sequences, FiniteSets, TLC

\* ------------------------------------------------------------------ bounds
\* Largest value of the clock (Date.now() is counted from 0 in ticks).
MaxClock == 1
\* Number of clients that send requests at the same time.
NumClients == 2

\* ------------------------------------------------------- JavaScript values
Undefined == [type |-> "undefined"]
Null == [type |-> "null"]
\* A JSON number in a request body (a value that is not a string).
Num == [type |-> "number", num |-> 7]
\* A string, as the sequence of its pieces.
Str(s) == [type |-> "string", chars |-> s]

IsString(v) == v.type = "string"

\* JavaScript truthiness, as `!x` and `x ? a : b` read it.
Truthy(v) ==
    CASE v.type = "string" -> ("chars" \in DOMAIN v) => v.chars # <<>>
      [] v.type = "number" -> v.num # 0
      [] v.type = "object" -> TRUE
      [] OTHER -> FALSE

\* ------------------------------------------------------------- the clients
Clients == 1..NumClients

\* ------------------------------------------------------- library functions
GmailSuffix == "@gmail.com"
LocalPart(c) == IF c = 1 THEN "a" ELSE IF c = 2 THEN "b" ELSE "c"
LocalParts == {LocalPart(c) : c \in Clients}
Domains == {"@gmail.com", "@yahoo.com"}

\* validator.isEmail on a string: a local part followed by @domain.
isEmail(email) ==
    /\ Len(email.chars) = 2
    /\ email.chars[1] \in LocalParts
    /\ email.chars[2] \in Domains

\* String.prototype.endsWith
endsWith(s, suffix) ==
    /\ Len(s.chars) >= 1
    /\ s.chars[Len(s.chars)] = suffix

\* Mutant: the suffix test is dropped.
isValidGmail_AnyDomain(email) == isEmail(email)

\* isValidGmail without the type assertion; on a non-string validator.isEmail
\* throws (see RegisterArrive).
isValidGmail(email) == isEmail(email) /\ endsWith(email, GmailSuffix)

\* bcrypt.hash(password, 10): a one-way hash that carries its cost prefix.
BcryptPrefix == "$2a$10$"
bcryptHash(password) == Str(<<BcryptPrefix>> \o password.chars)

\* Mutant: the comparison's promise is not awaited, so it always reads true.
bcryptCompare_NotAwaited(password, hash) == TRUE

\* bcrypt.compare(password, hash)
bcryptCompare(password, hash) == hash = bcryptHash(password)

\* user._id as it is serialised into the cookie, and the cast findById does.
ObjectIdString(id) == Str(<<"oid", id>>)
IsObjectIdString(v) ==
    /\ v.type = "string"
    /\ "chars" \in DOMAIN v
    /\ Len(v.chars) = 2
    /\ v.chars[1] = "oid"
CastObjectId(v) == v.chars[2]

\* JSON.stringify of a value, and JSON.parse of a string: parse gives back the
\* value of JSON text and throws on a string that is not JSON text.
JSONstringify(value) == [type |-> "string", json |-> value]
IsJSONText(s) == s.type = "string" /\ "json" \in DOMAIN s
JSONparse(s) == s.json

\* path.extname(originalname): the last piece of the name.
extname(originalname) == originalname[Len(originalname)]

\* ------------------------------------------------------------------- state
VARIABLES
    users,      \* the User collection: a set of records
    nextId,     \* the next _id the store hands out
    files,      \* the upload directory: a set of [name, data], names unique
    now,        \* Date.now()
    jar,        \* jar[c]: the `user` cookie client c holds, or Undefined
    req,        \* req[c]: client c's current (or last answered) request
    lastAuth,   \* history: identity of c's last successful register/login
    crashed     \* the Node process died on an unhandled rejection

vars == <<users, nextId, files, now, jar, req, lastAuth, crashed>>

EmptyBody ==
    [name |-> Undefined, username |-> Undefined, contact |-> Undefined,
     email |-> Undefined, password |-> Undefined]

\* A request as the handler sees it, with the handler's local variables.
NewRequest(kind, body, cookie, fromJar, part) ==
    [kind |-> kind, pc |-> "arrived", body |-> body,
     cookie |-> cookie,        \* req.cookies.user
     fromJar |-> fromJar,      \* the Cookie header is the jar's
     part |-> part,            \* the multipart file part, or Undefined
     file |-> Undefined,       \* req.file
     exists |-> FALSE,         \* register: findOne found a record
     dupKey |-> FALSE,         \* register: create hit the unique index
     hashed |-> Undefined,     \* register: the password hash
     id |-> Undefined,         \* upload: the id read from the cookie
     user |-> Undefined,       \* upload: result of findById (an _id or Null)
     threw |-> FALSE,          \* the handler's catch block ran
     res |-> <<>>]             \* the responses sent, in order

NoRequest ==
    [NewRequest("none", EmptyBody, Undefined, TRUE, Undefined)
        EXCEPT !.pc = "done"]

Init ==
    /\ users = {}
    /\ nextId = 1
    /\ files = {}
    /\ now = 0
    /\ jar = [c \in Clients |-> Undefined]
    /\ req = [c \in Clients |-> NoRequest]
    /\ lastAuth = [c \in Clients |-> Null]
    /\ crashed = FALSE

\* --------------------------------------------------------------- responses
NoCookieOp == [op |-> "none"]
SetCookie(value) == [op |-> "set", value |-> value]
ClearCookie == [op |-> "clear"]

Response(status, body, cookie) ==
    [status |-> status, body |-> body, cookie |-> cookie]

\* res.status(s).json({error: msg})
ErrorResponse(status, msg) == Response(status, [error |-> msg], NoCookieOp)

\* The client's jar after a response.
ApplyCookie(held, cookie) ==
    CASE cookie.op = "set" -> cookie.value
      [] cookie.op = "clear" -> Undefined
      [] OTHER -> held

\* The session cookie of register and login:
\* JSON.stringify({ id: user._id, username: user.username })
SessionCookie(user) ==
    JSONstringify([type |-> "object", id |-> ObjectIdString(user.id),
                   username |-> user.username])

\* History: the identity a successful register or login establishes, read from
\* the store by the identifying field of the request.
Identity(r, store) ==
    LET u == CHOOSE u \in store :
                 IF r.kind = "register" THEN u.username = r.body.username
                 ELSE u.email = r.body.email
    IN [type |-> "object", id |-> ObjectIdString(u.id), username |-> u.username]

\* The handler of r sends `response` and its request is over.
Respond(c, r, response) ==
    /\ req' = [req EXCEPT ![c] =
                 [r EXCEPT !.pc = "done", !.res = Append(@, response)]]
    /\ jar' = [jar EXCEPT ![c] = ApplyCookie(@, response.cookie)]
    /\ lastAuth' = [lastAuth EXCEPT ![c] =
                      IF r.kind = "logout" THEN Null
                      ELSE IF r.kind \in {"register", "login"}
                              /\ response.status = 200
                           THEN Identity(r, users')
                           ELSE @]

\* Mutant: the login handler has no try/catch.
Guarded_NoLogin(kind) == kind \in {"register", "check", "upload"}

\* Which handlers wrap their body in try/catch.
Guarded(kind) == kind \in {"register", "login", "check", "upload"}

\* What each handler's catch block answers.
CatchResponse(kind) ==
    CASE kind = "register" -> ErrorResponse(500, "Server error")
      [] kind = "login" -> ErrorResponse(500, "Server error")
      [] kind = "upload" -> ErrorResponse(500, "Upload failed")
      [] kind = "check" -> Response(200, [loggedIn |-> FALSE], NoCookieOp)

\* A step of r's handler throws (or an awaited promise rejects).
Throw(c, r) ==
    IF Guarded(r.kind)
    THEN /\ Respond(c, [r EXCEPT !.threw = TRUE], CatchResponse(r.kind))
         /\ UNCHANGED crashed
    ELSE /\ crashed' = TRUE
         /\ req' = [req EXCEPT ![c] = [r EXCEPT !.pc = "lost"]]
         /\ UNCHANGED <<jar, lastAuth>>

\* Client c may send a request: the server is up and c awaits no answer.
CanSend(c) == ~crashed /\ req[c].pc = "done"

\* ---------------------------------------------------------------- register
RegNames == {Undefined, Str(<<"n">>)}
RegUsernames == {Undefined, Str(<<"u1">>), Str(<<"u2">>)}
RegContacts == {Undefined, Str(<<"1">>)}
RegEmails ==
    {Undefined, Num, Str(<<"a", "@gmail.com">>), Str(<<"b", "@gmail.com">>),
     Str(<<"a", "@yahoo.com">>), Str(<<"@gmail.com">>)}
RegPasswords == {Undefined, Num, Str(<<"p1">>)}

\* Every body: each field absent or present, the email of every shape.
RegisterBodies ==
    [name : RegNames, username : RegUsernames, contact : RegContacts,
     email : RegEmails, password : RegPasswords]

\* The bodies that pass the field checks.
ValidBodies ==
    {b \in RegisterBodies :
        /\ b.name = Str(<<"n">>) /\ b.contact = Str(<<"1">>)
        /\ b.password = Str(<<"p1">>)
        /\ b.username # Undefined
        /\ IsString(b.email) /\ isValidGmail(b.email)}

\* POST /register up to the first await: the field checks.
RegisterArrive(c, bodies) ==
    /\ CanSend(c)
    /\ \E body \in bodies :
         LET r == NewRequest("register", body, jar[c], TRUE, Undefined) IN
         IF \/ ~Truthy(body.name) \/ ~Truthy(body.username)
            \/ ~Truthy(body.contact) \/ ~Truthy(body.email)
            \/ ~Truthy(body.password)
         THEN /\ Respond(c, r, ErrorResponse(400, "All fields required"))
              /\ UNCHANGED crashed
         ELSE IF ~IsString(body.email)
         THEN Throw(c, r)
         ELSE IF ~isValidGmail(body.email)
         THEN /\ Respond(c, r, ErrorResponse(400, "Only Gmail allowed"))
              /\ UNCHANGED crashed
         ELSE /\ req' = [req EXCEPT ![c] = [r EXCEPT !.pc = "findOne"]]
              /\ UNCHANGED <<jar, lastAuth, crashed>>
    /\ UNCHANGED <<users, nextId, files, now>>

\* User.findOne({ $or: [{ email }, { username }] })
FindByEmailOrUsername(store, email, username) ==
    {u \in store : u.email = email \/ u.username = username}

\* The awaited findOne, the exists check and bcrypt.hash.
RegisterFindOne(c) ==
    /\ ~crashed
    /\ req[c].kind = "register" /\ req[c].pc = "findOne"
    /\ LET r == req[c] IN
       \E storeOk \in BOOLEAN :
         IF ~storeOk
         THEN Throw(c, r)
         ELSE IF FindByEmailOrUsername(users, r.body.email, r.body.username) # {}
         THEN /\ Respond(c, [r EXCEPT !.exists = TRUE],
                         ErrorResponse(400, "User already exists"))
              /\ UNCHANGED crashed
         ELSE IF ~IsString(r.body.password)
         THEN Throw(c, r)
         ELSE /\ req' = [req EXCEPT ![c] =
                           [r EXCEPT !.pc = "create",
                                     !.hashed = bcryptHash(r.body.password)]]
              /\ UNCHANGED <<jar, lastAuth, crashed>>
    /\ UNCHANGED <<users, nextId, files, now>>

\* Mutant: the schema declares no unique index.
ViolatesUnique_NoIndex(store, doc) == FALSE

\* The unique indexes of userSchema: username and email.
ViolatesUnique(store, doc) ==
    \E u \in store : u.username = doc.username \/ u.email = doc.email

\* The document User.create builds from the handler's fields.
NewUser(id, r) ==
    [id |-> id, name |-> r.body.name, username |-> r.body.username,
     contact |-> r.body.contact, email |-> r.body.email,
     password |-> r.hashed, profileImage |-> Str(<<>>)]

\* The awaited User.create, then res.cookie and res.json.
RegisterCreate(c) ==
    /\ ~crashed
    /\ req[c].kind = "register" /\ req[c].pc = "create"
    /\ LET r == req[c]
           doc == NewUser(nextId, r) IN
       \E storeOk \in BOOLEAN :
         IF ~storeOk
         THEN /\ UNCHANGED <<users, nextId>>
              /\ Throw(c, r)
         ELSE IF ViolatesUnique(users, doc)
         THEN /\ UNCHANGED <<users, nextId>>
              /\ Throw(c, [r EXCEPT !.dupKey = TRUE])
         ELSE /\ users' = users \cup {doc}
              /\ nextId' = nextId + 1
              /\ Respond(c, r,
                    Response(200, [success |-> TRUE,
                                   message |-> "Registered successfully"],
                             SetCookie(SessionCookie(doc))))
              /\ UNCHANGED crashed
    /\ UNCHANGED <<files, now>>

\* ------------------------------------------------------------------- login
LoginEmails == {Str(<<"a", "@gmail.com">>), Str(<<"b", "@gmail.com">>)}
LoginPasswords == {Undefined, Str(<<"p1">>), Str(<<"p2">>)}
LoginBodies ==
    {[EmptyBody EXCEPT !.email = e, !.password = p] :
        e \in LoginEmails, p \in LoginPasswords}

\* POST /login up to the first await: the body is read, findOne is issued.
LoginArrive(c, bodies) ==
    /\ CanSend(c)
    /\ \E body \in bodies :
         req' = [req EXCEPT ![c] =
                   [NewRequest("login", body, jar[c], TRUE, Undefined)
                      EXCEPT !.pc = "findOne"]]
    /\ UNCHANGED <<users, nextId, files, now, jar, lastAuth, crashed>>

\* User.findOne({ email })
FindByEmail(store, email) == {u \in store : u.email = email}

\* The awaited findOne, bcrypt.compare, then res.cookie and res.json.
LoginFindOne(c) ==
    /\ ~crashed
    /\ req[c].kind = "login" /\ req[c].pc = "findOne"
    /\ UNCHANGED <<users, nextId, files, now>>
    /\ LET r == req[c]
           found == FindByEmail(users, r.body.email) IN
       \E storeOk \in BOOLEAN :
         IF ~storeOk
         THEN Throw(c, r)
         ELSE IF found = {}
         THEN /\ Respond(c, r, ErrorResponse(400, "User not found"))
              /\ UNCHANGED crashed
         ELSE LET user == CHOOSE u \in found : TRUE IN
              IF ~IsString(r.body.password)
              THEN Throw(c, r)
              ELSE IF ~bcryptCompare(r.body.password, user.password)
              THEN /\ Respond(c, r, ErrorResponse(400, "Wrong password"))
                   /\ UNCHANGED crashed
              ELSE /\ Respond(c, r,
                         Response(200, [success |-> TRUE,
                                        message |-> "Login successful"],
                                  SetCookie(SessionCookie(user))))
                   /\ UNCHANGED crashed

\* ------------------------------------------------- hand-made Cookie headers
ForgedCookies ==
    {Str(<<"garbage">>),
     JSONstringify(Null),
     JSONstringify([type |-> "object", id |-> ObjectIdString(0),
                    username |-> Str(<<"x">>)]),
     JSONstringify([type |-> "object", id |-> Str(<<"zz">>),
                    username |-> Str(<<"x">>)])}

\* The Cookie headers client c may send: its jar's, or a hand-made one.
\* Each is paired with whether it is the jar's.
CookieChoices(c, forged) ==
    {<<jar[c], TRUE>>} \cup {<<k, FALSE>> : k \in forged}

\* ------------------------------------------------------------------- check
\* GET /check
CheckSession(c, forged) ==
    /\ CanSend(c)
    /\ \E ck \in CookieChoices(c, forged) :
         LET r == NewRequest("check", EmptyBody, ck[1], ck[2], Undefined) IN
         IF ~Truthy(r.cookie)
         THEN /\ Respond(c, r, Response(200, [loggedIn |-> FALSE, user |-> Null],
                                        NoCookieOp))
              /\ UNCHANGED crashed
         ELSE IF ~IsJSONText(r.cookie)
         THEN Throw(c, r)
         ELSE LET user == JSONparse(r.cookie) IN
              /\ Respond(c, r, Response(200, [loggedIn |-> Truthy(user),
                                              user |-> user], NoCookieOp))
              /\ UNCHANGED crashed
    /\ UNCHANGED <<users, nextId, files, now>>

\* ------------------------------------------------------------------ logout
\* Mutant: the cookie is not cleared.
LogoutResponse_NoClear == Response(200, [success |-> TRUE], NoCookieOp)

\* res.clearCookie("user", ...) and res.json({ success: true })
LogoutResponse == Response(200, [success |-> TRUE], ClearCookie)

\* GET /logout
Logout(c, forged) ==
    /\ CanSend(c)
    /\ \E ck \in CookieChoices(c, forged) :
         LET r == NewRequest("logout", EmptyBody, ck[1], ck[2], Undefined) IN
         Respond(c, r, LogoutResponse)
    /\ UNCHANGED <<users, nextId, files, now, crashed>>

\* ------------------------------------------------------------------ upload
UploadField == "profileImage"
\* The multipart file parts a request may carry (or none: Undefined).
UploadParts ==
    {Undefined,
     [type |-> "object", field |-> "profileImage", originalname |-> <<"me", ".png">>],
     [type |-> "object", field |-> "avatar", originalname |-> <<"me", ".png">>]}

\* A well-formed part.
UploadPart ==
    [type |-> "object", field |-> "profileImage", originalname |-> <<"me", ".png">>]

\* POST /upload-profile arrives; multer starts reading the body.
UploadArrive(c, forged, parts) ==
    /\ CanSend(c)
    /\ \E ck \in CookieChoices(c, forged), part \in parts :
         req' = [req EXCEPT ![c] =
                   [NewRequest("upload", EmptyBody, ck[1], ck[2], part)
                      EXCEPT !.pc = "multer"]]
    /\ UNCHANGED <<users, nextId, files, now, jar, lastAuth, crashed>>

\* storage.filename: Date.now() + path.extname(file.originalname)
StorageFilename(time, part) == Str(<<time, extname(part.originalname)>>)

\* diskStorage writes the part under uploadDir, replacing a file of that name.
WriteFile(dir, name, data) ==
    {f \in dir : f.name # name} \cup {[name |-> name, data |-> data]}

\* What Express's default error handler answers when a middleware fails.
DefaultErrorResponse ==
    Response(500, [page |-> "Internal Server Error"], NoCookieOp)

\* upload.single("profileImage") and then, when it calls next(), the handler
\* up to its first await: the cookie check, JSON.parse, findById issued.
UploadMulter(c) ==
    /\ ~crashed
    /\ req[c].kind = "upload" /\ req[c].pc = "multer"
    /\ UNCHANGED <<users, nextId, now>>
    /\ LET r0 == req[c] IN
       IF Truthy(r0.part) /\ r0.part.field # UploadField
       THEN /\ Respond(c, r0, DefaultErrorResponse)
            /\ UNCHANGED <<files, crashed>>
       ELSE LET name == StorageFilename(now, r0.part)
                r == IF Truthy(r0.part)
                     THEN [r0 EXCEPT !.file = [type |-> "object", filename |-> name]]
                     ELSE r0
            IN
            /\ files' = IF Truthy(r0.part) THEN WriteFile(files, name, c)
                        ELSE files
            /\ IF ~Truthy(r.cookie)
               THEN /\ Respond(c, r, ErrorResponse(401, "Not logged in"))
                    /\ UNCHANGED crashed
               ELSE IF ~IsJSONText(r.cookie)
               THEN Throw(c, r)
               ELSE IF JSONparse(r.cookie).type # "object"
               THEN Throw(c, r)
               ELSE /\ req' = [req EXCEPT ![c] =
                                 [r EXCEPT !.pc = "findById",
                                           !.id = JSONparse(r.cookie).id]]
                    /\ UNCHANGED <<jar, lastAuth, crashed>>

\* Mutant: the query loses its filter and matches any record.
FindById_Any(store, id) == store

\* User.findById(id)
FindById(store, id) == {u \in store : u.id = CastObjectId(id)}

\* The awaited findById, then user.profileImage = req.file.filename and
\* save issued.
UploadFindById(c) ==
    /\ ~crashed
    /\ req[c].kind = "upload" /\ req[c].pc = "findById"
    /\ UNCHANGED <<users, nextId, files, now>>
    /\ LET r == req[c] IN
       \E storeOk \in BOOLEAN :
         IF ~storeOk \/ ~IsObjectIdString(r.id)
         THEN Throw(c, r)
         ELSE LET found == FindById(users, r.id) IN
              IF found = {}
              THEN Throw(c, [r EXCEPT !.user = Null])
              ELSE LET user == CHOOSE u \in found : TRUE IN
                   IF ~Truthy(r.file)
                   THEN Throw(c, [r EXCEPT !.user = user.id])
                   ELSE /\ req' = [req EXCEPT ![c] =
                                     [r EXCEPT !.pc = "save", !.user = user.id]]
                        /\ UNCHANGED <<jar, lastAuth, crashed>>

\* Mutant: the update is applied without the _id filter.
SaveProfileImage_All(store, id, filename) ==
    {[u EXCEPT !.profileImage = filename] : u \in store}

\* user.save() with profileImage modified: the record's other fields stay.
SaveProfileImage(store, id, filename) ==
    {IF u.id = id THEN [u EXCEPT !.profileImage = filename] ELSE u : u \in store}

\* The awaited user.save(), then res.json.
UploadSave(c) ==
    /\ ~crashed
    /\ req[c].kind = "upload" /\ req[c].pc = "save"
    /\ UNCHANGED <<nextId, files, now>>
    /\ LET r == req[c] IN
       \E storeOk \in BOOLEAN :
         IF ~storeOk
         THEN /\ UNCHANGED users
              /\ Throw(c, r)
         ELSE /\ users' = SaveProfileImage(users, r.user, r.file.filename)
              /\ Respond(c, r,
                    Response(200,
                      [success |-> TRUE,
                       imageUrl |-> Str(<<"/uploads/profiles/">>
                                        \o r.file.filename.chars)],
                      NoCookieOp))
              /\ UNCHANGED crashed

\* ------------------------------------------------------------------- clock
Tick ==
    /\ now < MaxClock
    /\ now' = now + 1
    /\ UNCHANGED <<users, nextId, files, jar, req, lastAuth, crashed>>

\* ---------------------------------------------------------- specifications
\* The bodies of the request sequences: the well-formed ones, one with a
\* field missing, one with an address that is not Gmail's, one whose email is
\* no string and one whose password is no string.
SeqBodies ==
    ValidBodies \cup
    {b \in RegisterBodies :
        /\ b.username = Str(<<"u1">>) /\ b.contact = Str(<<"1">>)
        /\ \/ /\ b.name = Undefined
              /\ b.email = Str(<<"a", "@gmail.com">>)
              /\ b.password = Str(<<"p1">>)
           \/ /\ b.name = Str(<<"n">>)
              /\ b.email \in {Num, Str(<<"a", "@yahoo.com">>)}
              /\ b.password = Str(<<"p1">>)
           \/ /\ b.name = Str(<<"n">>)
              /\ b.email = Str(<<"b", "@gmail.com">>)
              /\ b.password = Num}

\* One client, every route: the request sequences of a single client.
NextSeq ==
    \/ RegisterArrive(1, SeqBodies)
    \/ RegisterFindOne(1)
    \/ RegisterCreate(1)
    \/ LoginArrive(1, LoginBodies)
    \/ LoginFindOne(1)
    \/ CheckSession(1, ForgedCookies)
    \/ Logout(1, ForgedCookies)
    \/ UploadArrive(1, ForgedCookies, UploadParts)
    \/ UploadMulter(1)
    \/ UploadFindById(1)
    \/ UploadSave(1)
    \/ Tick

SpecSeq == Init /\ [][NextSeq]_vars

\* One client, /register with every body: the field checks.
NextRegister ==
    \/ RegisterArrive(1, RegisterBodies)
    \/ RegisterFindOne(1)
    \/ RegisterCreate(1)

SpecRegister == Init /\ [][NextRegister]_vars

\* The body client c registers with in SpecUpload: its own name and address.
OwnBody(c) ==
    [name |-> Str(<<"n">>), username |-> Str(<<"u", c>>),
     contact |-> Str(<<"1">>), email |-> Str(<<LocalPart(c), GmailSuffix>>),
     password |-> Str(<<"p1">>)]

\* All clients at once, each with its own account: interleaved uploads.
NextUpload ==
    \/ \E c \in Clients :
        \/ RegisterArrive(c, {OwnBody(c)})
        \/ RegisterFindOne(c)
        \/ RegisterCreate(c)
        \/ UploadArrive(c, {}, {UploadPart})
        \/ UploadMulter(c)
        \/ UploadFindById(c)
        \/ UploadSave(c)
    \/ Tick

SpecUpload == Init /\ [][NextUpload]_vars

\* All clients at once, well-formed bodies: interleaved registrations.
Next ==
    \E c \in Clients :
        \/ RegisterArrive(c, ValidBodies)
        \/ RegisterFindOne(c)
        \/ RegisterCreate(c)

Spec == Init /\ [][Next]_vars

\* ================================================================== claims
\* Client c's request has been answered.
Answered(c) == req[c].kind # "none" /\ req[c].pc = "done"

\* The response to an answered request.
Answer(r) == r.res[1]

\* Client c's request is answered in this step.
AnsweredNow(c) == req[c].pc # "done" /\ req'[c].pc = "done"

\* A request of client c arrives in this step.
ArrivesNow(c) == req[c].pc = "done" /\ req'[c] # req[c]

\* C1: in every reachable state of the store, under every interleaving of
\* Register requests, no two user records share an email and no two share a
\* username.
C1_UniqueEmailAndUsername ==
    \A u, v \in users :
        u # v => u.email # v.email /\ u.username # v.username

\* C1 witness: two records are stored and a registration that passed the
\* existence check was stopped by the unique index.
C1_Witness ==
    /\ Cardinality(users) = 2
    /\ \E c \in Clients : Answered(c) /\ req[c].dupKey

\* C3 (as claimed): a well-formed registration that meets a record with its
\* email or username, at the existence check or at the creation, is answered
\* once with 400 "User already exists" and sets no cookie.
C3_ConflictAnswered400 ==
    \A c \in Clients :
        (Answered(c) /\ req[c].kind = "register"
            /\ (req[c].exists \/ req[c].dupKey))
        => req[c].res = <<ErrorResponse(400, "User already exists")>>

\* A register body the field checks must reject: a field is absent, or the
\* email is text that does not end in "@gmail.com".
RejectedBody(b) ==
    \/ Undefined \in {b.name, b.username, b.contact, b.email, b.password}
    \/ IsString(b.email) /\ ~endsWith(b.email, GmailSuffix)

LoginFound(r) == {u \in users : u.email = r.body.email}
LoginMatches(r) ==
    /\ IsString(r.body.password)
    /\ \E u \in LoginFound(r) :
         u.password = Str(<<BcryptPrefix>> \o r.body.password.chars)

\* The answer carries the session cookie of a record the email finds: its
\* parsed value is that record's id and username.
LoginCookieIsRecord(r, answer) ==
    /\ answer.cookie.op = "set"
    /\ IsJSONText(answer.cookie.value)
    /\ \E u \in LoginFound(r) :
         /\ JSONparse(answer.cookie.value).id = ObjectIdString(u.id)
         /\ JSONparse(answer.cookie.value).username = u.username

\* C4 (as claimed): Login sets the cookie exactly when a record with the email
\* exists and the password matches its hash; an unknown email or a wrong
\* password is answered 400 without a cookie; on success the cookie's parsed
\* value is the id and username of the record.
C4_LoginCookieIffCredentials ==
    [][\A c \in Clients :
        (AnsweredNow(c) /\ req[c].kind = "login")
        => LET r == req'[c]
               answer == Answer(req'[c])
           IN /\ (answer.cookie.op = "set") <=> LoginMatches(r)
              /\ LoginMatches(r) =>
                    answer.status = 200 /\ LoginCookieIsRecord(r, answer)
              /\ (LoginFound(r) = {}
                     \/ (IsString(r.body.password) /\ ~LoginMatches(r)))
                 => answer.status = 400 /\ answer.cookie.op = "none"]_vars

\* C4 (amended): Login sets the cookie exactly when the lookup succeeds, a
\* record with the email exists and the password matches its hash.  When the
\* lookup succeeds, an unknown email or a wrong password is answered 400
\* without a cookie; when the lookup fails, or the password is no string and a
\* record is found, the answer is 500 without a cookie; on success the
\* cookie's parsed value is the id and username of the record.
C4_LoginCookieIffCredentialsAndLookup ==
    [][\A c \in Clients :
        (AnsweredNow(c) /\ req[c].kind = "login")
        => LET r == req'[c]
               answer == Answer(req'[c])
           IN /\ Len(r.res) = 1
              /\ (answer.cookie.op = "set") <=> (LoginMatches(r) /\ ~r.threw)
              /\ (LoginMatches(r) /\ ~r.threw) =>
                    answer.status = 200 /\ LoginCookieIsRecord(r, answer)
              /\ (~r.threw /\ LoginFound(r) = {}) =>
                    answer = ErrorResponse(400, "User not found")
              /\ (~r.threw /\ LoginFound(r) # {} /\ ~LoginMatches(r)) =>
                    answer = ErrorResponse(400, "Wrong password")
              /\ r.threw => answer = ErrorResponse(500, "Server error")
              /\ users' = users]_vars

\* C4 witness: a login with the right password holds the record's cookie, and
\* the store holds a second record.
C4_Witness ==
    /\ Answered(1) /\ req[1].kind = "login"
    /\ Answer(req[1]).status = 200
    /\ Cardinality(users) = 2
    /\ jar[1] = Answer(req[1]).cookie.value

\* C5: for a client whose requests carry its jar's cookie, CheckSession
\* answers loggedIn:true with the identity of the last successful Register or
\* Login when no Logout came after it, and loggedIn:false when the client
\* holds no cookie: before any success and after a Logout.  Logout always
\* answers success.
C5_CheckFollowsLastAuth ==
    \A c \in Clients :
        /\ (jar[c] = Undefined) <=> (lastAuth[c] = Null)
        /\ (Answered(c) /\ req[c].kind = "check" /\ req[c].fromJar) =>
              /\ Len(req[c].res) = 1
              /\ Answer(req[c]).status = 200
              /\ Answer(req[c]).body.loggedIn = (lastAuth[c] # Null)
              /\ Answer(req[c]).body.user = lastAuth[c]
        /\ (Answered(c) /\ req[c].kind = "logout") =>
              /\ Len(req[c].res) = 1
              /\ Answer(req[c]).status = 200
              /\ Answer(req[c]).body = [success |-> TRUE]
              /\ lastAuth[c] = Null /\ jar[c] = Undefined

\* C5 witness: a check answered loggedIn:true for the second account, after
\* both accounts were created by this client.
C5_Witness ==
    /\ Answered(1) /\ req[1].kind = "check" /\ req[1].fromJar
    /\ Answer(req[1]).body.loggedIn
    /\ Cardinality(users) = 2
    /\ lastAuth[1] # Null
    /\ lastAuth[1].id = ObjectIdString(2)

\* The id an upload's cookie parses to belongs to no record of the store.
MatchesNoRecord(r) ==
    \/ ~IsObjectIdString(r.id)
    \/ \A u \in users : u.id # r.id.chars[2]

\* C7: an upload whose cookie parses to an id that matches no record is
\* answered with an error (500 "Upload failed", never success:true) and sets
\* profileImage on no record.
C7_UnknownIdUploadFails ==
    [][\A c \in Clients :
        (req[c].kind = "upload" /\ req[c].pc = "findById"
            /\ MatchesNoRecord(req[c]) /\ req'[c] # req[c])
        => /\ req'[c].pc = "done"
           /\ req'[c].res = <<ErrorResponse(500, "Upload failed")>>
           /\ users' = users]_vars

\* C7 witness: with a record in the store and a file sent, an upload under a
\* hand-made cookie whose id is well-formed found no record and was answered.
C7_Witness ==
    /\ users # {}
    /\ Answered(1) /\ req[1].kind = "upload"
    /\ req[1].id = ObjectIdString(0)
    /\ req[1].user = Null
    /\ Truthy(req[1].file)

\* A step adds exactly one record, for client c's register answered 200.
AddsOneRecord(c) ==
    /\ req[c].kind = "register" /\ AnsweredNow(c)
    /\ Answer(req'[c]).status = 200
    /\ \E doc \in users' : doc \notin users /\ users' = users \cup {doc}

\* A step changes only the profileImage of the record named by the id in the
\* cookie of client c's upload, answered 200.
SetsOneProfileImage(c) ==
    /\ req[c].kind = "upload" /\ AnsweredNow(c)
    /\ Answer(req'[c]).status = 200
    /\ \E u \in users, image \in {f.name : f \in files} :
         /\ IsObjectIdString(req[c].id) /\ u.id = req[c].id.chars[2]
         /\ users' = (users \ {u}) \cup {[u EXCEPT !.profileImage = image]}

\* C8: the records change only by a successful Register, which adds exactly
\* one record, and by a successful UploadProfileImage, which changes only the
\* profileImage of the record its cookie names.  Login, CheckSession, Logout
\* and every failed request leave all records as they are.
C8_RecordsFrame ==
    [][/\ users' # users =>
            \E c \in Clients : AddsOneRecord(c) \/ SetsOneProfileImage(c)
       /\ \A c \in Clients :
            (req'[c] # req[c] /\ req'[c].kind \in {"login", "check", "logout"})
            => users' = users
       /\ \A c \in Clients :
            (AnsweredNow(c) /\ Answer(req'[c]).status # 200)
            => users' = users]_vars

\* C8 witness: of two records, the upload of the second account's holder has
\* set the second record's profileImage and left the first one's empty.
C8_Witness ==
    /\ Answered(1) /\ req[1].kind = "upload" /\ Answer(req[1]).status = 200
    /\ \E u, v \in users :
         /\ u.id = 1 /\ v.id = 2
         /\ u.profileImage = Str(<<>>)
         /\ v.profileImage # Str(<<>>)

\* C9: no failure leaves a handler.  A request whose handler step threw (a
\* failed store operation, an input the step cannot take) is answered exactly
\* once: Register, Login and UploadProfileImage with 500 and a fixed message
\* and without a cookie, CheckSession with 200 {loggedIn:false}.  The process
\* stays up, and every answered request was answered once.
C9_FailuresAnswered500 ==
    /\ ~crashed
    /\ \A c \in Clients :
        /\ Answered(c) => Len(req[c].res) = 1
        /\ (Answered(c) /\ req[c].threw
              /\ req[c].kind \in {"register", "login"}) =>
              req[c].res = <<ErrorResponse(500, "Server error")>>
        /\ (Answered(c) /\ req[c].threw /\ req[c].kind = "upload") =>
              req[c].res = <<ErrorResponse(500, "Upload failed")>>
        /\ (Answered(c) /\ req[c].threw /\ req[c].kind = "check") =>
              req[c].res = <<Response(200, [loggedIn |-> FALSE], NoCookieOp)>>
        /\ req[c].threw => req[c].pc = "done"

\* C9 witness: a login whose handler threw has been answered, with the
\* account it names in the store.
C9_Witness ==
    /\ Answered(1) /\ req[1].kind = "login" /\ req[1].threw
    /\ \E u \in users : u.email = req[1].body.email

\* C2 (as claimed): an upload without a session cookie is answered 401, and
\* nothing is stored for it: the request holds no stored file.
C2_NoCookieUploadStoresNothing ==
    \A c \in Clients :
        (req[c].kind = "upload" /\ req[c].cookie = Undefined
            /\ req[c].pc \in {"findById", "save", "done"})
        => /\ req[c].res = <<ErrorResponse(401, "Not logged in")>>
           /\ req[c].file = Undefined
           /\ \A f \in files : f.data # c

\* C10 (as claimed): two requests never store their file under one name: the
\* stored names of two clients' uploads differ, and two records never name
\* the same file.
C10_StoredNamesDiffer ==
    /\ \A c, d \in Clients :
        (c # d /\ req[c].kind = "upload" /\ req[d].kind = "upload"
            /\ Truthy(req[c].file) /\ Truthy(req[d].file))
        => req[c].file.filename # req[d].file.filename
    /\ \A u, v \in users :
        (u # v /\ u.profileImage # Str(<<>>)) => u.profileImage # v.profileImage
====
